---- MODULE Spec2Model ----
(***************************************************************************)
(* The dual-queue reconciliation core of pkg/reconciler/deployment:        *)
(* two rate-limited work queues (queue for Deployments, clusterQueue for   *)
(* Clusters), the informer callbacks that feed them, the worker loops      *)
(* processNextWorkItem / processNextClusterWorkItem, handleErr, process    *)
(* and processCluster.                                                      *)
(***************************************************************************)
EXTENDS Integers, Sequences, FiniteSets, TLC

\* ------------------------------------------------------------------ bounds

\* Errors the collaborators (cache lookup, reconcile, the persistence client,
\* the lister) return in one run, at most.
MaxFaults == 5

\* Notifications the two informers deliver in one run, at most.
MaxEvents == 2

\* ---------------------------------------------------------------- universe

\* Identities of the Deployments that exist on the API server.
DeploymentIds ==
    { [namespace |-> "ns", name |-> "a", hasMeta |-> TRUE],
      [namespace |-> "ns", name |-> "b", hasMeta |-> TRUE] }

\* Identities of the Clusters (topology sites) the cluster informer reports.
\* The first carries a namespace, so that its key is the string a Deployment
\* has for key; the second has the key of a cluster-scoped object.
ClusterIds ==
    { [namespace |-> "ns", name |-> "a", hasMeta |-> TRUE],
      [namespace |-> "", name |-> "east", hasMeta |-> TRUE] }

\* An object handed to a callback that carries no object metadata (the
\* cache.DeletedFinalStateUnknown a DeleteFunc can receive).
NoMetaObj == [namespace |-> "", name |-> "", hasMeta |-> FALSE]

\* Worker goroutines Start can launch for each queue (Start's numThreads).
Threads == {1, 2}

\* cache.MetaNamespaceKeyFunc: "<namespace>/<name>", or "<name>" when the
\* namespace is empty; an error when the object has no metadata.
MetaNamespaceKeyFunc(obj) ==
    IF ~obj.hasMeta THEN [key |-> "", err |-> TRUE]
    ELSE IF obj.namespace # "" THEN [key |-> obj.namespace \o "/" \o obj.name, err |-> FALSE]
    ELSE [key |-> obj.name, err |-> FALSE]

KeyOf(obj) == MetaNamespaceKeyFunc(obj).key

DeploymentKeys == { KeyOf(d) : d \in DeploymentIds }
ClusterKeys == { KeyOf(c) : c \in ClusterIds }
Keys == DeploymentKeys \cup ClusterKeys

\* The retry threshold of handleErr ("num < 5").
maxRetries == 5

\* ------------------------------------------------------------ the work queue
\* workqueue.RateLimitingInterface as built by NewRateLimitingQueue(
\* DefaultControllerRateLimiter()): a FIFO of pending keys, the dirty and the
\* processing set, the delaying queue's waiting entries and the rate limiter's
\* per-key failure counter.

EmptyQueue ==
    [ queue |-> << >>, dirty |-> {}, processing |-> {}, waitingForAdd |-> {},
      failures |-> [k \in Keys |-> 0], shuttingDown |-> FALSE ]

\* Type.Add
Add(q, item) ==
    IF q.shuttingDown \/ item \in q.dirty THEN q
    ELSE IF item \in q.processing THEN [q EXCEPT !.dirty = @ \cup {item}]
    ELSE [q EXCEPT !.dirty = @ \cup {item}, !.queue = Append(@, item)]

\* Type.Get, when an item is pending: the head moves to the processing set.
Get(q) ==
    [q EXCEPT !.queue = Tail(@),
              !.processing = @ \cup {Head(q.queue)},
              !.dirty = @ \ {Head(q.queue)}]

\* Type.Done
Done(q, item) ==
    [q EXCEPT !.processing = @ \ {item},
              !.queue = IF item \in q.dirty THEN Append(@, item) ELSE @]

\* rateLimitingType.Forget
Forget(q, item) == [q EXCEPT !.failures[item] = 0]

\* rateLimitingType.NumRequeues
NumRequeues(q, item) == q.failures[item]

\* rateLimitingType.AddRateLimited: When(item) counts one more failure, and
\* AddAfter parks the item until its (always positive) delay has passed.
AddRateLimited(q, item) ==
    [q EXCEPT !.failures[item] = @ + 1,
              !.waitingForAdd = IF q.shuttingDown THEN @ ELSE @ \cup {item}]

\* delayingType.waitingLoop: the delay of a parked item has passed.
DelayElapsed(q, item) == Add([q EXCEPT !.waitingForAdd = @ \ {item}], item)

\* Type.ShutDown
ShutDown(q) == [q EXCEPT !.shuttingDown = TRUE]

\* ------------------------------------------------------------------- state

VARIABLES
    queue,          \* Controller.queue: the Deployment work queue
    clusterQueue,   \* Controller.clusterQueue: the Cluster work queue
    indexer,        \* Controller.indexer / lister: the Deployment informer's cache
    apiserver,      \* the Deployments as persisted behind kubeClient
    stopCh,         \* Controller.stopCh is closed
    startPc,        \* where Controller.Start is
    numThreads,     \* the argument of Controller.Start
    clusters,       \* the Clusters the cluster informer knows
    faults,         \* errors the collaborators may still return
    events,         \* notifications the informers may still deliver
    workers,        \* the goroutines running startWorker
    clusterWorkers, \* the goroutines running startClusterWorker
    delivered,      \* per Deployment key: times queue.Get() returned it since
                    \* Controller.enqueue was last called for it
    enqueuedInPass, \* the Deployment keys for which that last call of
                    \* Controller.enqueue came while a worker held the key
    writeFailed     \* the Deployment keys whose latest pass ended in a failed
                    \* Update or UpdateStatus, the informer not having
                    \* refreshed the cached object since

vars == << queue, clusterQueue, indexer, apiserver, stopCh, startPc,
           numThreads, clusters, faults, events, workers, clusterWorkers, delivered,
           enqueuedInPass, writeFailed >>

\* A Deployment as far as the controller reads it: whether Labels is nil,
\* an empty map or carries ownedByLabel, and one value standing for Status and
\* one for every other field.
Deployment(labels, spec, status) ==
    [exists |-> TRUE, labels |-> labels, spec |-> spec, status |-> status]

\* The entry of a key under which a store holds no Deployment.
Absent == [exists |-> FALSE, labels |-> "nil", spec |-> 0, status |-> 0]

\* The keys under which store f (the cache, the API server) holds a Deployment.
Present(f) == { k \in DOMAIN f : f[k].exists }

\* Store f with v under key x.
Put(f, x, v) == [f EXCEPT ![x] = v]

\* Store f with nothing under key x.
Drop(f, x) == [f EXCEPT ![x] = Absent]

\* A goroutine of a worker pool: its place in wait.Until / processNext*WorkItem,
\* the key it holds, the handler's error, the persistence calls of this pass,
\* the errors this pass handed to runtime.HandleError.
IdleWorker(pc) == [pc |-> pc, key |-> "", err |-> FALSE, calls |-> << >>, handled |-> 0]

TypeOK ==
    /\ \A q \in {queue, clusterQueue} :
          /\ \A i \in 1..Len(q.queue) : q.queue[i] \in Keys
          /\ q.dirty \subseteq Keys /\ q.processing \subseteq Keys
          /\ q.waitingForAdd \subseteq Keys
          /\ \A k \in Keys : q.failures[k] \in Nat
          /\ q.shuttingDown \in BOOLEAN
    /\ DOMAIN indexer = DeploymentKeys
    /\ DOMAIN apiserver = DeploymentKeys
    /\ stopCh \in BOOLEAN
    /\ startPc \in {"call", "wait", "returned"}
    /\ numThreads \in Threads
    /\ clusters \subseteq ClusterIds
    /\ faults \in 0..MaxFaults
    /\ events \in 0..(MaxEvents + 1)
    /\ \A k \in DeploymentKeys : delivered[k] \in Nat
    /\ enqueuedInPass \subseteq DeploymentKeys
    /\ writeFailed \subseteq DeploymentKeys
    /\ \A w \in Threads :
          /\ workers[w].pc \in {"off", "until", "get", "process", "handleErr", "done", "exited"}
          /\ clusterWorkers[w].pc \in {"off", "until", "get", "process", "handleErr", "done", "exited"}

\* The state NewController leaves when Start is to be called with n threads,
\* the API server holds the Deployments deps, the Clusters cls exist, the
\* collaborators return at most f errors and the informers deliver at most e
\* notifications: both queues empty, the informers started but their caches
\* not yet filled (WaitForCacheSync is called before the factories start).
InitWith(n, deps, cls, f, e) ==
    /\ queue = EmptyQueue
    /\ clusterQueue = EmptyQueue
    /\ indexer = [k \in DeploymentKeys |-> Absent]
    /\ apiserver = deps
    /\ stopCh = FALSE
    /\ startPc = "call"
    /\ numThreads = n
    /\ clusters = cls
    /\ faults = f
    /\ events = e
    /\ delivered = [k \in DeploymentKeys |-> 0]
    /\ enqueuedInPass = {}
    /\ writeFailed = {}
    /\ workers = [w \in Threads |-> IdleWorker("off")]
    /\ clusterWorkers = [w \in Threads |-> IdleWorker("off")]

\* One root Deployment (Labels nil, or an empty map).
OneRoot(labels) ==
    [k \in DeploymentKeys |-> IF k = "ns/a" THEN Deployment(labels, 0, 0) ELSE Absent]

\* One root Deployment (Labels nil, or an empty map) and one owned by it.
RootAndDerived(labels) ==
    [k \in DeploymentKeys |-> IF k = "ns/a" THEN Deployment(labels, 0, 0)
                                            ELSE Deployment("owned", 0, 0)]

\* The Cluster named n, alone.
OneCluster(n) == { c \in ClusterIds : c.name = n }

Init == InitWith(1, OneRoot("nil"), OneCluster("east"), MaxFaults, MaxEvents)
\* Two workers per queue, and a Cluster whose key is a Deployment's key.
InitB == InitWith(2, OneRoot("empty"), OneCluster("a"), 0, 2)

\* No collaborator fails; one more notification.
InitD == InitWith(1, OneRoot("empty"), OneCluster("east"), 0, MaxEvents + 1)

\* A root and a derived Deployment; no collaborator fails; one more
\* notification.
InitR == InitWith(1, RootAndDerived("empty"), OneCluster("east"), 0, MaxEvents + 1)

\* One failure; one more notification.
InitL == InitWith(1, OneRoot("empty"), OneCluster("east"), 1, MaxEvents + 1)

\* ------------------------------------------------------------- EventBridge

\* Controller.enqueue: the queue after enqueue(obj), and whether the error
\* of the key function went to runtime.HandleError.
enqueue(q, obj) ==
    IF MetaNamespaceKeyFunc(obj).err
    THEN [q |-> q, handled |-> 1]
    ELSE [q |-> AddRateLimited(q, MetaNamespaceKeyFunc(obj).key), handled |-> 0]

\* An enqueueCluster that reports the key function's error and enqueues the
\* empty key all the same.
enqueueClusterKeepsBadKey(q, obj) ==
    IF MetaNamespaceKeyFunc(obj).err
    THEN [q |-> [q EXCEPT !.waitingForAdd = @ \cup {MetaNamespaceKeyFunc(obj).key}],
          handled |-> 1]
    ELSE [q |-> AddRateLimited(q, MetaNamespaceKeyFunc(obj).key), handled |-> 0]

\* Controller.enqueueCluster
enqueueCluster(q, obj) ==
    IF MetaNamespaceKeyFunc(obj).err
    THEN [q |-> q, handled |-> 1]
    ELSE [q |-> AddRateLimited(q, MetaNamespaceKeyFunc(obj).key), handled |-> 0]

\* The identity of the Deployment cached under key k.
IdOf(k) == CHOOSE d \in DeploymentIds : KeyOf(d) = k


\* A goroutine between the Get that returned its key and its deferred Done.
Holding(wk) == wk.pc \in {"process", "handleErr", "done"}

\* The Deployment keys in the hands of a primary worker.
Held == { workers[w].key : w \in { x \in Threads : Holding(workers[x]) } }

\* The Deployment informer delivers the Add or Update of k (from the watch,
\* or from a relist): the cache takes the persisted object and AddFunc /
\* UpdateFunc call enqueue.
DeploymentAddedOrUpdated(k) ==
    /\ k \in Present(apiserver)
    /\ k \notin Present(indexer) \/ indexer[k] # apiserver[k]
    /\ events > 0
    /\ events' = events - 1
    /\ indexer' = Put(indexer, k, apiserver[k])
    /\ writeFailed' = writeFailed \ {k}
    /\ queue' = enqueue(queue, IdOf(k)).q
    /\ delivered' = [delivered EXCEPT ![k] = 0]
    /\ enqueuedInPass' = IF k \in Held THEN enqueuedInPass \cup {k} ELSE enqueuedInPass \ {k}
    /\ UNCHANGED << clusterQueue, apiserver, stopCh, startPc, numThreads, clusters,
                    faults, workers, clusterWorkers >>

\* The informer delivers the deletion of Deployment k: the cache drops it;
\* the Deployment informer has no DeleteFunc.
DeploymentDeleted(k) ==
    /\ k \in Present(indexer)
    /\ k \notin Present(apiserver)
    /\ indexer' = Drop(indexer, k)
    /\ writeFailed' = writeFailed \ {k}
    /\ UNCHANGED << queue, clusterQueue, apiserver, stopCh, startPc, numThreads,
                    clusters, faults, events, workers, clusterWorkers, delivered,
                    enqueuedInPass >>

\* UpdateFunc on a cached object whose content the cache already has: the
\* periodic resync (resyncPeriod), or the watch reporting the controller's
\* own write.
DeploymentResync(k) ==
    /\ k \in Present(indexer)
    /\ events > 0
    /\ events' = events - 1
    /\ queue' = enqueue(queue, IdOf(k)).q
    /\ delivered' = [delivered EXCEPT ![k] = 0]
    /\ enqueuedInPass' = IF k \in Held THEN enqueuedInPass \cup {k} ELSE enqueuedInPass \ {k}
    /\ UNCHANGED << clusterQueue, indexer, apiserver, stopCh, startPc, numThreads,
                    clusters, faults, workers, clusterWorkers, writeFailed >>

\* A user deletes Deployment k on the API server.
DeploymentRemoved(k) ==
    /\ k \in Present(apiserver)
    /\ apiserver' = Drop(apiserver, k)
    /\ UNCHANGED << queue, clusterQueue, indexer, stopCh, startPc, numThreads, clusters,
                    faults, events, workers, clusterWorkers, delivered, enqueuedInPass,
                    writeFailed >>

\* The Cluster informer's AddFunc, UpdateFunc or DeleteFunc on obj.
ClusterEvent(obj) ==
    /\ obj \in clusters \cup {NoMetaObj}
    /\ events > 0
    /\ events' = events - 1
    /\ clusterQueue' = enqueueCluster(clusterQueue, obj).q
    /\ UNCHANGED << queue, indexer, apiserver, stopCh, startPc, numThreads, clusters,
                    faults, workers, clusterWorkers, delivered, enqueuedInPass,
                    writeFailed >>

\* The delay of a key parked in queue by AddRateLimited has passed.
QueueDelayElapsed(k) ==
    /\ k \in queue.waitingForAdd
    /\ ~queue.shuttingDown
    /\ queue' = DelayElapsed(queue, k)
    /\ UNCHANGED << clusterQueue, indexer, apiserver, stopCh, startPc, numThreads,
                    clusters, faults, events, workers, clusterWorkers, delivered,
                    enqueuedInPass, writeFailed >>

\* The delay of a key parked in clusterQueue by AddRateLimited has passed.
ClusterQueueDelayElapsed(k) ==
    /\ k \in clusterQueue.waitingForAdd
    /\ ~clusterQueue.shuttingDown
    /\ clusterQueue' = DelayElapsed(clusterQueue, k)
    /\ UNCHANGED << queue, indexer, apiserver, stopCh, startPc, numThreads, clusters,
                    faults, events, workers, clusterWorkers, delivered, enqueuedInPass,
                    writeFailed >>

\* ---------------------------------------------------------------- WorkerPool

\* Controller.Start up to "<-c.stopCh": the goroutines are launched.
StartCall ==
    /\ startPc = "call"
    /\ startPc' = "wait"
    /\ workers' = [w \in Threads |-> IF w <= numThreads THEN IdleWorker("until") ELSE workers[w]]
    /\ clusterWorkers' = [w \in Threads |-> IF w <= numThreads THEN IdleWorker("until")
                                                            ELSE clusterWorkers[w]]
    /\ UNCHANGED << queue, clusterQueue, indexer, apiserver, stopCh, numThreads,
                    clusters, faults, events, delivered, enqueuedInPass, writeFailed >>

\* stopCh is closed (the shutdown signal).
CloseStopCh ==
    /\ ~stopCh
    /\ stopCh' = TRUE
    /\ UNCHANGED << queue, clusterQueue, indexer, apiserver, startPc, numThreads,
                    clusters, faults, events, workers, clusterWorkers, delivered,
                    enqueuedInPass, writeFailed >>

\* Controller.Start from "<-c.stopCh" on: the signal has come, the deferred
\* c.clusterQueue.ShutDown() and c.queue.ShutDown() run (last deferred first)
\* and Start returns.
StartReturn ==
    /\ startPc = "wait"
    /\ stopCh
    /\ clusterQueue' = ShutDown(clusterQueue)
    /\ queue' = ShutDown(queue)
    /\ startPc' = "returned"
    /\ UNCHANGED << indexer, apiserver, stopCh, numThreads, clusters, faults, events,
                    workers, clusterWorkers, delivered, enqueuedInPass, writeFailed >>

\* A handleErr that keeps retrying: with the retry budget spent it reports the
\* error but parks the key again instead of forgetting it.
handleErrRequeuesOnGiveUp(err, key, q) ==
    IF ~err THEN [q |-> Forget(q, key), handled |-> 0]
    ELSE IF NumRequeues(q, key) < maxRetries
         THEN [q |-> AddRateLimited(q, key), handled |-> 0]
         ELSE [q |-> AddRateLimited(q, key), handled |-> 1]

\* A handleErr that leaves the retry counter alone after a success.
handleErrKeepsCounter(err, key, q) ==
    IF ~err THEN [q |-> q, handled |-> 0]
    ELSE IF NumRequeues(q, key) < maxRetries
         THEN [q |-> AddRateLimited(q, key), handled |-> 0]
         ELSE [q |-> Forget(q, key), handled |-> 1]

\* handleErr(err, key, queue): the queue afterwards, and the number of errors
\* handed to runtime.HandleError.
handleErr(err, key, q) ==
    IF ~err THEN [q |-> Forget(q, key), handled |-> 0]
    ELSE IF NumRequeues(q, key) < maxRetries
         THEN [q |-> AddRateLimited(q, key), handled |-> 0]
         ELSE [q |-> Forget(q, key), handled |-> 1]

\* equality.Semantic.DeepEqual on two Deployments: nil and empty maps are equal.
DeepEqual(x, y) ==
    /\ x.spec = y.spec
    /\ x.status = y.status
    /\ (x.labels = "owned") = (y.labels = "owned")

\* Controller.reconcile (defined outside controller.go): mutates the
\* Deployment it is handed, in its status, in its other fields, in both or
\* not at all, and returns an error or nil.
reconcile(obj) ==
    { [obj |-> o, err |-> e] :
        o \in { obj, [obj EXCEPT !.status = 1], [obj EXCEPT !.spec = 1],
                [obj EXCEPT !.spec = 1, !.status = 1] },
        e \in BOOLEAN }

\* What one Update or UpdateStatus call with object cur can do: fail, or
\* (the object still being there) store it.
Persist(call, key, cur, idx, api) ==
    { [indexer |-> idx, apiserver |-> api, err |-> TRUE, calls |-> << call >>,
       fault |-> IF key \in Present(api) THEN 1 ELSE 0] }
    \cup
    IF key \in Present(api)
    THEN { [indexer |-> idx,
            apiserver |-> Put(api, key, IF call = "Update" THEN cur
                                        ELSE [api[key] EXCEPT !.status = cur.status]),
            err |-> FALSE, calls |-> << call >>, fault |-> 0] }
    ELSE {}

\* A process that writes whenever reconcile returns nil, changed or not.
processAlwaysUpdates(key, idx, api) ==
    { [indexer |-> idx, apiserver |-> api, err |-> TRUE, calls |-> << >>, fault |-> 1] }
    \cup
    IF key \notin Present(idx)
    THEN { [indexer |-> idx, apiserver |-> api, err |-> FALSE, calls |-> << >>, fault |-> 0] }
    ELSE UNION {
        IF r.err
        THEN { [indexer |-> Put(idx, key, r.obj), apiserver |-> api,
                err |-> TRUE, calls |-> << >>, fault |-> 1] }
        ELSE Persist("Update", key, r.obj, Put(idx, key, r.obj), api)
        : r \in reconcile(idx[key]) }

\* A process that follows a successful Update with an UpdateStatus.
processUpdatesThenStatus(key, idx, api) ==
    { [indexer |-> idx, apiserver |-> api, err |-> TRUE, calls |-> << >>, fault |-> 1] }
    \cup
    IF key \notin Present(idx)
    THEN { [indexer |-> idx, apiserver |-> api, err |-> FALSE, calls |-> << >>, fault |-> 0] }
    ELSE UNION {
        IF r.err
        THEN { [indexer |-> Put(idx, key, r.obj), apiserver |-> api,
                err |-> TRUE, calls |-> << >>, fault |-> 1] }
        ELSE IF ~DeepEqual(idx[key], r.obj)
        THEN { [o EXCEPT !.calls = IF o.err THEN @ ELSE Append(@, "UpdateStatus")] :
                  o \in Persist("Update", key, r.obj, Put(idx, key, r.obj), api) }
        ELSE { [indexer |-> Put(idx, key, r.obj), apiserver |-> api,
                err |-> FALSE, calls |-> << >>, fault |-> 0] }
        : r \in reconcile(idx[key]) }

\* Controller.process(key): every outcome of one pass, as the cache and the API
\* server afterwards, the error returned and the persistence
\* calls made. current is the cached object itself; previous is its copy.
process(key, idx, api) ==
    { [indexer |-> idx, apiserver |-> api, err |-> TRUE, calls |-> << >>, fault |-> 1] }
    \cup
    IF key \notin Present(idx)
    THEN { [indexer |-> idx, apiserver |-> api, err |-> FALSE, calls |-> << >>, fault |-> 0] }
    ELSE UNION {
        LET previous == idx[key]
            current == r.obj
            mutated == Put(idx, key, current)
        IN  IF r.err
            THEN { [indexer |-> mutated, apiserver |-> api,
                    err |-> TRUE, calls |-> << >>, fault |-> 1] }
            ELSE IF ~DeepEqual(previous, current)
            THEN Persist("Update", key, current, mutated, api)
            ELSE IF previous.status # current.status
            THEN Persist("UpdateStatus", key, current, mutated, api)
            ELSE { [indexer |-> mutated, apiserver |-> api,
                    err |-> FALSE, calls |-> << >>, fault |-> 0] }
        : r \in reconcile(idx[key]) }

\* The Deployments processCluster enqueues: those whose ownedByLabel is "".
Roots(idx) == { k \in Present(idx) : idx[k].labels # "owned" }

\* c.enqueue on each Deployment of S in turn.
RECURSIVE EnqueueAll(_, _)
EnqueueAll(q, S) ==
    IF S = {} THEN q
    ELSE LET k == CHOOSE x \in S : TRUE
         IN  EnqueueAll(enqueue(q, IdOf(k)).q, S \ {k})

\* A processCluster without the ownedByLabel test: every listed Deployment is
\* enqueued.
processClusterEnqueuesEveryone(idx, q) ==
    { [indexer |-> idx, queue |-> q, err |-> TRUE],
      [indexer |-> [k \in DOMAIN idx |->
                        IF idx[k].exists /\ idx[k].labels = "nil"
                        THEN [idx[k] EXCEPT !.labels = "empty"] ELSE idx[k]],
       queue |-> EnqueueAll(q, Present(idx)),
       err |-> FALSE] }

\* Controller.processCluster: List fails, or every listed Deployment with nil
\* Labels gets an empty map (in the cache) and every root is enqueued.
processCluster(idx, q) ==
    { [indexer |-> idx, queue |-> q, err |-> TRUE],
      [indexer |-> [k \in DOMAIN idx |->
                        IF idx[k].exists /\ idx[k].labels = "nil"
                        THEN [idx[k] EXCEPT !.labels = "empty"] ELSE idx[k]],
       queue |-> EnqueueAll(q, Roots(idx)),
       err |-> FALSE] }

\* A wait.Until that never looks at stopCh.
WorkerUntilIgnoresStop(w) ==
    /\ workers[w].pc = "until"
    /\ workers' = [workers EXCEPT ![w].pc = "get"]
    /\ UNCHANGED << queue, clusterQueue, indexer, apiserver, stopCh, startPc,
                    numThreads, clusters, faults, events, clusterWorkers, delivered,
                    enqueuedInPass, writeFailed >>

\* wait.Until around startWorker: stop when stopCh is closed, else call it.
WorkerUntil(w) ==
    /\ workers[w].pc = "until"
    /\ workers' = [workers EXCEPT ![w].pc = IF stopCh THEN "exited" ELSE "get"]
    /\ UNCHANGED << queue, clusterQueue, indexer, apiserver, stopCh, startPc,
                    numThreads, clusters, faults, events, clusterWorkers, delivered,
                    enqueuedInPass, writeFailed >>

\* processNextWorkItem: c.queue.Get() returns a key.
WorkerGet(w) ==
    /\ workers[w].pc = "get"
    /\ queue.queue # << >>
    /\ queue' = Get(queue)
    /\ delivered' = [delivered EXCEPT ![Head(queue.queue)] = @ + 1]
    /\ workers' = [workers EXCEPT ![w] = [IdleWorker("process") EXCEPT !.key = Head(queue.queue)]]
    /\ UNCHANGED << clusterQueue, indexer, apiserver, stopCh, startPc, numThreads,
                    clusters, faults, events, clusterWorkers, enqueuedInPass,
                    writeFailed >>

\* processNextWorkItem: c.queue.Get() reports quit; startWorker returns.
WorkerQuit(w) ==
    /\ workers[w].pc = "get"
    /\ queue.queue = << >>
    /\ queue.shuttingDown
    /\ workers' = [workers EXCEPT ![w].pc = "until"]
    /\ UNCHANGED << queue, clusterQueue, indexer, apiserver, stopCh, startPc,
                    numThreads, clusters, faults, events, clusterWorkers, delivered,
                    enqueuedInPass, writeFailed >>

\* processNextWorkItem: err := c.process(key)
WorkerProcess(w) ==
    /\ workers[w].pc = "process"
    /\ \E o \in process(workers[w].key, indexer, apiserver) :
          /\ o.fault <= faults
          /\ faults' = faults - o.fault
          /\ indexer' = o.indexer
          /\ apiserver' = o.apiserver
          /\ workers' = [workers EXCEPT ![w].pc = "handleErr", ![w].err = o.err,
                                        ![w].calls = o.calls]
          /\ writeFailed' = IF o.err /\ o.calls # << >>
                            THEN writeFailed \cup {workers[w].key}
                            ELSE writeFailed \ {workers[w].key}
    /\ UNCHANGED << queue, clusterQueue, stopCh, startPc, numThreads, clusters, events,
                    clusterWorkers, delivered, enqueuedInPass >>

\* processNextWorkItem: handleErr(err, key, c.queue)
WorkerHandleErr(w) ==
    /\ workers[w].pc = "handleErr"
    /\ LET h == handleErr(workers[w].err, workers[w].key, queue)
       IN  /\ queue' = h.q
           /\ workers' = [workers EXCEPT ![w].pc = "done", ![w].err = FALSE,
                                         ![w].calls = << >>, ![w].handled = h.handled]
    /\ UNCHANGED << clusterQueue, indexer, apiserver, stopCh, startPc, numThreads,
                    clusters, faults, events, clusterWorkers, delivered, enqueuedInPass,
                    writeFailed >>

\* processNextWorkItem: the deferred c.queue.Done(key); the loop goes on.
WorkerDone(w) ==
    /\ workers[w].pc = "done"
    /\ queue' = Done(queue, workers[w].key)
    /\ workers' = [workers EXCEPT ![w] = IdleWorker("get")]
    /\ UNCHANGED << clusterQueue, indexer, apiserver, stopCh, startPc, numThreads,
                    clusters, faults, events, clusterWorkers, delivered, enqueuedInPass,
                    writeFailed >>

\* wait.Until around startClusterWorker.
ClusterWorkerUntil(w) ==
    /\ clusterWorkers[w].pc = "until"
    /\ clusterWorkers' = [clusterWorkers EXCEPT ![w].pc = IF stopCh THEN "exited" ELSE "get"]
    /\ UNCHANGED << queue, clusterQueue, indexer, apiserver, stopCh, startPc,
                    numThreads, clusters, faults, events, workers, delivered,
                    enqueuedInPass, writeFailed >>

\* processNextClusterWorkItem: c.clusterQueue.Get() returns a key.
ClusterWorkerGet(w) ==
    /\ clusterWorkers[w].pc = "get"
    /\ clusterQueue.queue # << >>
    /\ clusterQueue' = Get(clusterQueue)
    /\ clusterWorkers' = [clusterWorkers EXCEPT
          ![w] = [IdleWorker("process") EXCEPT !.key = Head(clusterQueue.queue)]]
    /\ UNCHANGED << queue, indexer, apiserver, stopCh, startPc, numThreads, clusters,
                    faults, events, workers, delivered, enqueuedInPass, writeFailed >>

\* processNextClusterWorkItem: c.clusterQueue.Get() reports quit.
ClusterWorkerQuit(w) ==
    /\ clusterWorkers[w].pc = "get"
    /\ clusterQueue.queue = << >>
    /\ clusterQueue.shuttingDown
    /\ clusterWorkers' = [clusterWorkers EXCEPT ![w].pc = "until"]
    /\ UNCHANGED << queue, clusterQueue, indexer, apiserver, stopCh, startPc,
                    numThreads, clusters, faults, events, workers, delivered,
                    enqueuedInPass, writeFailed >>

\* processNextClusterWorkItem: err := c.processCluster(key)
ClusterWorkerProcess(w) ==
    /\ clusterWorkers[w].pc = "process"
    /\ \E o \in processCluster(indexer, queue) :
          /\ o.err => faults > 0
          /\ faults' = IF o.err THEN faults - 1 ELSE faults
          /\ indexer' = o.indexer
          /\ queue' = o.queue
          /\ delivered' = [k \in DeploymentKeys |->
                               IF ~o.err /\ k \in Roots(indexer) THEN 0 ELSE delivered[k]]
          /\ enqueuedInPass' =
                IF o.err THEN enqueuedInPass
                ELSE (enqueuedInPass \ Roots(indexer)) \cup (Roots(indexer) \cap Held)
          /\ clusterWorkers' = [clusterWorkers EXCEPT ![w].pc = "handleErr", ![w].err = o.err]
    /\ UNCHANGED << clusterQueue, apiserver, stopCh, startPc, numThreads, clusters,
                    events, workers, writeFailed >>

\* processNextClusterWorkItem: handleErr(err, key, c.clusterQueue)
ClusterWorkerHandleErr(w) ==
    /\ clusterWorkers[w].pc = "handleErr"
    /\ LET h == handleErr(clusterWorkers[w].err, clusterWorkers[w].key, clusterQueue)
       IN  /\ clusterQueue' = h.q
           /\ clusterWorkers' = [clusterWorkers EXCEPT ![w].pc = "done", ![w].err = FALSE,
                                                       ![w].handled = h.handled]
    /\ UNCHANGED << queue, indexer, apiserver, stopCh, startPc, numThreads, clusters,
                    faults, events, workers, delivered, enqueuedInPass, writeFailed >>

\* The queues after the deferred Done of processNextClusterWorkItem, which is
\* "defer c.queue.Done(key)": the key came from clusterQueue.
clusterWorkerDeferredDone(q, cq, key) == [queue |-> Done(q, key), clusterQueue |-> cq]

\* processNextClusterWorkItem: the deferred Done; the loop goes on.
ClusterWorkerDone(w) ==
    /\ clusterWorkers[w].pc = "done"
    /\ queue' = clusterWorkerDeferredDone(queue, clusterQueue, clusterWorkers[w].key).queue
    /\ clusterQueue' = clusterWorkerDeferredDone(queue, clusterQueue, clusterWorkers[w].key).clusterQueue
    /\ clusterWorkers' = [clusterWorkers EXCEPT ![w] = IdleWorker("get")]
    /\ UNCHANGED << indexer, apiserver, stopCh, startPc, numThreads, clusters, faults,
                    events, workers, delivered, enqueuedInPass, writeFailed >>

Next ==
    \/ \E k \in DeploymentKeys : DeploymentAddedOrUpdated(k)
    \/ \E k \in DeploymentKeys : DeploymentDeleted(k)
    \/ \E k \in DeploymentKeys : DeploymentResync(k)
    \/ \E k \in DeploymentKeys : DeploymentRemoved(k)
    \/ \E obj \in ClusterIds \cup {NoMetaObj} : ClusterEvent(obj)
    \/ \E k \in Keys : QueueDelayElapsed(k)
    \/ \E k \in Keys : ClusterQueueDelayElapsed(k)
    \/ StartCall
    \/ CloseStopCh
    \/ StartReturn
    \/ \E w \in Threads : WorkerUntil(w)
    \/ \E w \in Threads : WorkerGet(w)
    \/ \E w \in Threads : WorkerQuit(w)
    \/ \E w \in Threads : WorkerProcess(w)
    \/ \E w \in Threads : WorkerHandleErr(w)
    \/ \E w \in Threads : WorkerDone(w)
    \/ \E w \in Threads : ClusterWorkerUntil(w)
    \/ \E w \in Threads : ClusterWorkerGet(w)
    \/ \E w \in Threads : ClusterWorkerQuit(w)
    \/ \E w \in Threads : ClusterWorkerProcess(w)
    \/ \E w \in Threads : ClusterWorkerHandleErr(w)
    \/ \E w \in Threads : ClusterWorkerDone(w)

Spec == Init /\ [][Next]_vars

SpecB == InitB /\ [][Next]_vars

SpecD == InitD /\ [][Next]_vars

SpecR == InitR /\ [][Next]_vars

\* What the Go scheduler and the delaying queue's timers guarantee: a
\* goroutine that can take its next step takes it, a delay that has passed is
\* acted on. The informers and the shutdown signal are under no obligation.
Fairness ==
    /\ WF_vars(StartCall)
    /\ WF_vars(StartReturn)
    /\ \A k \in Keys : WF_vars(QueueDelayElapsed(k))
    /\ \A k \in Keys : WF_vars(ClusterQueueDelayElapsed(k))
    /\ \A w \in Threads :
          /\ WF_vars(WorkerUntil(w)) /\ WF_vars(WorkerGet(w)) /\ WF_vars(WorkerQuit(w))
          /\ WF_vars(WorkerProcess(w)) /\ WF_vars(WorkerHandleErr(w)) /\ WF_vars(WorkerDone(w))
          /\ WF_vars(ClusterWorkerUntil(w)) /\ WF_vars(ClusterWorkerGet(w))
          /\ WF_vars(ClusterWorkerQuit(w)) /\ WF_vars(ClusterWorkerProcess(w))
          /\ WF_vars(ClusterWorkerHandleErr(w)) /\ WF_vars(ClusterWorkerDone(w))

FairSpec == InitL /\ [][Next]_vars /\ Fairness

\* ------------------------------------------------------------------ claims

\* C1: at any time at most one worker of the primary pool is processing a
\* given key (between the Get that returned it and the matching Done), also
\* while the topology workers run and call their own completion step.
C1_AtMostOneWorkerPerKey ==
    \A w1, w2 \in Threads :
        (w1 # w2 /\ Holding(workers[w1]) /\ Holding(workers[w2]))
            => workers[w1].key # workers[w2].key

\* C2: in both worker loops, when the pass of a key ends (the deferred Done
\* has run), the key has left the processing set of the queue whose Get
\* returned it.
C2_DoneOnTheQueueOfGet ==
    [][ \A w \in Threads :
          /\ (workers[w].pc = "done" /\ workers'[w].pc = "get")
                => workers[w].key \notin queue'.processing
          /\ (clusterWorkers[w].pc = "done" /\ clusterWorkers'[w].pc = "get")
                => clusterWorkers[w].key \notin clusterQueue'.processing ]_vars

\* A step in which Controller.enqueue or Controller.enqueueCluster is called:
\* a notification of an informer, or processCluster returning nil.
EnqueueStep ==
    \/ events' < events
    \/ \E w \in Threads : /\ clusterWorkers[w].pc = "process"
                          /\ clusterWorkers'[w].pc = "handleErr"
                          /\ ~clusterWorkers'[w].err

\* C6: the enqueues made for informer notifications and by processCluster
\* leave the retry counter (NumRequeues) of every key as it was, on both queues.
C6_EnqueueKeepsRetryCounter ==
    [][ EnqueueStep => /\ queue'.failures = queue.failures
                       /\ clusterQueue'.failures = clusterQueue.failures ]_vars

\* A step in which process or processCluster runs.
HandlerStep ==
    \/ \E w \in Threads : workers[w].pc = "process" /\ workers'[w].pc = "handleErr"
    \/ \E w \in Threads : clusterWorkers[w].pc = "process" /\ clusterWorkers'[w].pc = "handleErr"

\* C10: a pass of process or processCluster, whatever its outcome, leaves
\* every object held in the informer's cache as it was.
C10_HandlersKeepTheCache ==
    [][ HandlerStep => indexer' = indexer ]_vars

\* Key k is in the hands of a topology worker running processCluster.
Rebalancing(k) ==
    \E w \in Threads : clusterWorkers[w].pc = "process" /\ clusterWorkers[w].key = k

\* Key k is in the hands of a primary worker running process.
Reconciling(k) ==
    \E w \in Threads : workers[w].pc = "process" /\ workers[w].key = k

\* C3: unless the controller is shut down, every notification for a Cluster
\* (its key is then parked in clusterQueue), the first as well as any later
\* one, is followed by a run of processCluster for that key.
C3_ClusterEventLeadsToRebalance ==
    \A c \in ClusterKeys :
        (c \in clusterQueue.waitingForAdd) ~> (Rebalancing(c) \/ stopCh)

\* The pass of process that ends in this step: reconcile returned nil (the
\* pass did not fail before any persistence call).
ReconcileSucceeded(wk) == ~(wk.err /\ wk.calls = << >>)

\* C4: when reconcile succeeds, a difference in the status alone makes the
\* pass issue exactly one UpdateStatus and no Update, and a difference in any
\* other field exactly one Update and no UpdateStatus.
C4_StatusOnlyVsFullUpdate ==
    [][ \A w \in Threads :
          ( /\ workers[w].pc = "process" /\ workers'[w].pc = "handleErr"
            /\ workers[w].key \in Present(indexer)
            /\ ReconcileSucceeded(workers'[w]) )
          => LET previous == indexer[workers[w].key]
                 current == indexer'[workers[w].key]
                 other == previous.spec # current.spec
                          \/ (previous.labels = "owned") # (current.labels = "owned")
             IN  /\ (~other /\ previous.status # current.status)
                        => workers'[w].calls = << "UpdateStatus" >>
                 /\ other => workers'[w].calls = << "Update" >> ]_vars

\* C5: a key that was enqueued by one notification and whose every pass
\* fails is given up on its 6th pass (the first plus maxRetries retries), and
\* is never handed out a 7th time.
C5_FiveRetriesThenGiveUp ==
    events = MaxEvents - 1 =>
        /\ \A k \in DeploymentKeys : delivered[k] <= maxRetries + 1
        /\ \A w \in Threads :
              (workers[w].pc = "done" /\ workers[w].handled = 1)
                  => delivered[workers[w].key] = maxRetries + 1

\* C7: however many times a key is enqueued while a pass of it runs, one
\* more pass of it starts after that pass and no second one: a key that was
\* last enqueued during a pass of it, and none of whose passes failed (no
\* collaborator fails, and its Deployment is still on the API server), is
\* handed out at most once after that enqueue.
C7_OneMorePassAfterEnqueue ==
    \A k \in DeploymentKeys :
        (k \in enqueuedInPass /\ faults = 0 /\ k \in Present(apiserver))
            => delivered[k] <= 1

\* C8: unless the controller is shut down, a key whose handler failed with
\* retries left is handed to a worker of the same queue again, on the primary
\* and on the topology queue (where the failure is that of List).
C8_FailedKeyIsRetried ==
    /\ \A k \in DeploymentKeys :
          (\E w \in Threads : /\ workers[w].pc = "handleErr" /\ workers[w].key = k
                              /\ workers[w].err
                              /\ NumRequeues(queue, k) < maxRetries)
              ~> (Reconciling(k) \/ stopCh)
    /\ \A c \in ClusterKeys :
          (\E w \in Threads : /\ clusterWorkers[w].pc = "handleErr"
                              /\ clusterWorkers[w].key = c
                              /\ clusterWorkers[w].err
                              /\ NumRequeues(clusterQueue, c) < maxRetries)
              ~> (Rebalancing(c) \/ stopCh)

\* The pass of worker record wk on queue q gives its key up in this step:
\* handleErr runs on an error with the retry budget spent.
GivesUp(wk, wk2, q) ==
    /\ wk.pc = "handleErr" /\ wk2.pc = "done"
    /\ wk.err
    /\ NumRequeues(q, wk.key) >= maxRetries

\* What giving up does to queue q (q2 afterwards): the counter of the key is
\* zero, one error went to runtime.HandleError, the key was not enqueued.
GaveUp(wk, wk2, q, q2) ==
    /\ NumRequeues(q2, wk.key) = 0
    /\ wk2.handled = 1
    /\ q2.waitingForAdd = q.waitingForAdd
    /\ q2.queue = q.queue
    /\ q2.dirty = q.dirty

IsRootResource(d) == d.exists /\ d.labels \in {"nil", "empty"}

\* A pass of processCluster that returns nil ends in this step.
RebalanceStep(w) ==
    /\ clusterWorkers[w].pc = "process" /\ clusterWorkers'[w].pc = "handleErr"
    /\ ~clusterWorkers'[w].err

\* C11: one successful pass of processCluster calls enqueue exactly once for
\* each root Deployment in the cache (the call shows as one more requeue
\* counted for the key, and the key parked on the primary queue), not at all
\* for a derived or an absent one, and leaves the topology queue alone.
C11_RebalanceEnqueuesExactlyTheRoots ==
    [][ \A w \in Threads : RebalanceStep(w) =>
          /\ \A k \in DeploymentKeys :
                IF IsRootResource(indexer[k])
                THEN /\ queue'.failures[k] = queue.failures[k] + 1
                     /\ queue.shuttingDown \/ k \in queue'.waitingForAdd
                ELSE /\ queue'.failures[k] = queue.failures[k]
                     /\ k \in queue'.waitingForAdd <=> k \in queue.waitingForAdd
          /\ clusterQueue' = clusterQueue ]_vars

\* C11 witness: processCluster has just returned nil with a root and a derived
\* Deployment in the cache; the root is parked, the derived one is not.
C11_Witness ==
    \E w \in Threads :
        /\ clusterWorkers[w].pc = "handleErr" /\ ~clusterWorkers[w].err
        /\ IsRootResource(indexer["ns/a"])
        /\ indexer["ns/b"].exists /\ indexer["ns/b"].labels = "owned"
        /\ "ns/a" \in queue.waitingForAdd
        /\ "ns/b" \notin queue.waitingForAdd

\* The goroutines Start launched have all left wait.Until.
AllWorkersExited ==
    \A w \in Threads :
        w <= numThreads => /\ workers[w].pc = "exited"
                           /\ clusterWorkers[w].pc = "exited"

\* C12: when Start has returned, the shutdown signal has been received,
\* ShutDown has been called on both queues and every worker of both groups
\* has exited.
C12_StartReturnsAfterWorkersExit ==
    startPc = "returned" =>
        /\ stopCh
        /\ queue.shuttingDown /\ clusterQueue.shuttingDown
        /\ AllWorkersExited

\* Key k awaits processing on queue q (pending or marked dirty, or parked by
\* AddRateLimited), which every enqueue on a queue that is not shut down
\* brings about.
Awaiting(q, k) == k \in q.dirty \/ k \in q.waitingForAdd \/ q.shuttingDown

\* C13: every notification the informers deliver for an object with a key
\* (create, update, delete; Deployment or Cluster) leaves that key awaiting
\* processing on the matching queue.
C13_EveryNotificationEnqueues ==
    [][ /\ \A k \in DeploymentKeys :
              (DeploymentAddedOrUpdated(k) \/ DeploymentResync(k) \/ DeploymentDeleted(k))
                  => Awaiting(queue', k)
        /\ \A c \in ClusterIds :
              ClusterEvent(c) => Awaiting(clusterQueue', KeyOf(c)) ]_vars

\* Worker w runs process in this step.
ProcessStep(w) == workers[w].pc = "process" /\ workers'[w].pc = "handleErr"

\* Two Deployments with the same content (a nil and an empty label map are
\* the same content).
SameContent(x, y) ==
    /\ x.spec = y.spec /\ x.status = y.status
    /\ (x.labels = "owned") <=> (y.labels = "owned")

\* C14: a pass whose reconcile succeeds and leaves the object equal to the
\* snapshot taken before it makes no persistence call and succeeds.
C14_UnchangedObjectIsNotPersisted ==
    [][ \A w \in Threads :
          ( /\ ProcessStep(w)
            /\ workers[w].key \in Present(indexer)
            /\ ReconcileSucceeded(workers'[w])
            /\ SameContent(indexer[workers[w].key], indexer'[workers[w].key]) )
          => /\ workers'[w].calls = << >>
             /\ ~workers'[w].err
             /\ apiserver' = apiserver ]_vars

\* C14 witness: a pass over a cached Deployment has just ended in success
\* without a persistence call.
C14_Witness ==
    \E w \in Threads :
        /\ workers[w].pc = "handleErr" /\ ~workers[w].err /\ workers[w].calls = << >>
        /\ workers[w].key \in Present(indexer)

\* C15: a pass for a key the cache does not hold fails only if the lookup
\* itself fails; otherwise it succeeds without a persistence call and without
\* touching cache or API server, and the handleErr that follows resets the
\* key's retry counter and enqueues nothing.
C15_NotFoundSucceedsAndForgets ==
    [][ \A w \in Threads :
          /\ (ProcessStep(w) /\ workers[w].key \notin Present(indexer))
                => /\ workers'[w].err => faults' < faults
                   /\ workers'[w].calls = << >>
                   /\ indexer' = indexer /\ apiserver' = apiserver
          /\ ( /\ workers[w].pc = "handleErr" /\ workers'[w].pc = "done"
               /\ ~workers[w].err
               /\ workers[w].key \notin Present(indexer) )
                => /\ NumRequeues(queue', workers[w].key) = 0
                   /\ workers'[w].handled = 0
                   /\ queue'.waitingForAdd = queue.waitingForAdd
                   /\ queue'.dirty = queue.dirty
                   /\ queue'.queue = queue.queue ]_vars

\* C15 witness: the pass for a key whose Deployment has left the cache is
\* over: no error, counter at zero, key not enqueued.
C15_Witness ==
    \E w \in Threads :
        /\ workers[w].pc = "done" /\ workers[w].handled = 0
        /\ workers[w].key \notin Present(indexer)
        /\ NumRequeues(queue, workers[w].key) = 0
        /\ workers[w].key \notin queue.waitingForAdd
        /\ workers[w].key \notin queue.dirty

\* C16: a pass of process makes at most one persistence call, and a pass
\* that failed, or made no call, has written nothing to the API server.
C16_AtMostOnePersistenceCall ==
    [][ \A w \in Threads : ProcessStep(w) =>
          /\ Len(workers'[w].calls) <= 1
          /\ (workers'[w].err \/ workers'[w].calls = << >>) => apiserver' = apiserver ]_vars

\* C16 witness: a pass has just made its one Update, successfully.
C16_Witness ==
    \E w \in Threads :
        /\ workers[w].pc = "handleErr" /\ ~workers[w].err
        /\ workers[w].calls = << "Update" >>

\* C17: once stopCh is closed, both queues get shut down and every worker of
\* both groups leaves its loop: one blocked in Get is told to quit, one with
\* an item in hand finishes it first.
C17_WorkersExitAfterShutdown ==
    stopCh ~> (/\ queue.shuttingDown /\ clusterQueue.shuttingDown
               /\ AllWorkersExited)

\* C17 witness: after the signal the queues are shut down and all workers are
\* gone, the primary one having handled a key meanwhile.
C17_Witness ==
    /\ stopCh /\ startPc = "returned"
    /\ queue.shuttingDown /\ clusterQueue.shuttingDown
    /\ AllWorkersExited
    /\ \E k \in DeploymentKeys : delivered[k] > 0

\* C18: a notification for an object without a derivable key is reported
\* once and dropped: enqueue and enqueueCluster hand the error to
\* runtime.HandleError and return the queue as it was, and the step that
\* delivers such a notification changes neither queue (no key parked, no
\* retry counter moved).
C18_UnkeyedObjectIsReportedAndDropped ==
    /\ [](/\ enqueue(queue, NoMetaObj) = [q |-> queue, handled |-> 1]
          /\ enqueueCluster(clusterQueue, NoMetaObj) = [q |-> clusterQueue, handled |-> 1])
    /\ [][ ClusterEvent(NoMetaObj) => (queue' = queue /\ clusterQueue' = clusterQueue) ]_vars

\* C18 witness: a notification has been delivered and both queues are as
\* NewController built them: it was one for an object without a key.
C18_Witness ==
    /\ events < MaxEvents
    /\ queue = EmptyQueue /\ clusterQueue = EmptyQueue
    /\ startPc = "wait"

\* C19: when the Update (or UpdateStatus) of a pass failed and the informer
\* has not refreshed the cached object since, the next pass for the key (the
\* Deployment still being on the API server) does not end in success without
\* a persistence call while the object it reconciled (the one the cache holds
\* afterwards) differs from what the API server holds.
C19_NoSilentSuccessWhileUnpersisted ==
    [][ \A w \in Threads :
          ( /\ ProcessStep(w)
            /\ workers[w].key \in writeFailed
            /\ workers[w].key \in Present(indexer)
            /\ workers[w].key \in Present(apiserver)
            /\ ~workers'[w].err /\ workers'[w].calls = << >> )
          => SameContent(indexer'[workers[w].key], apiserver'[workers[w].key]) ]_vars

\* C20: the deferred Done of a topology worker leaves the primary queue as
\* it was, whatever the key.
C20_TopologyDoneKeepsPrimaryQueue ==
    [][ \A w \in Threads :
          (clusterWorkers[w].pc = "done" /\ clusterWorkers'[w].pc = "get")
              => queue' = queue ]_vars

====
